---- MODULE Spec2Model ----
(***************************************************************************)
(* Model of the terminal back end of doom-ascii-pdf:                       *)
(*   src/src/doomgeneric.c        (dg_Create, resolution globals)          *)
(*   src/src/doomgeneric_ascii.c  (DG_Init, DG_DrawFrame, the key queue,   *)
(*                                 pressKey, decrementKeyCtrs, DG_GetKey)  *)
(***************************************************************************)
EXTENDS Integers, Sequences, FiniteSets, TLC

(***************************************************************************)
(* Program constants                                                       *)
(***************************************************************************)
KEYQUEUE_SIZE == 16
KEY_HOLD_KEYS == 7
KEY_HOLD_FRAMES == 2
GRAD_LEN == 70

\* doomkeys.h values of the keys named in keyHoldKeys[]
KEY_FIRE == 163
KEY_USE == 162
KEY_ENTER == 13
KEY_LEFTARROW == 172
KEY_RIGHTARROW == 174
KEY_UPARROW == 173
KEY_DOWNARROW == 175

\* keyHoldKeys[j], j = 0..KEY_HOLD_KEYS-1 (a TLA+ sequence is 1-based).
\* The array holds char values and pressKey takes a char; both sides of the
\* comparison in pressKey are the same conversion of the same byte, and
\* addKeyToQueue converts back to unsigned char, so the model keeps the byte.
keyHoldKeysSeq ==
    <<KEY_FIRE, KEY_USE, KEY_ENTER,
      KEY_LEFTARROW, KEY_RIGHTARROW, KEY_UPARROW, KEY_DOWNARROW>>

keyHoldKeys(j) == keyHoldKeysSeq[j + 1]

\* grad[]: the 70 glyphs of the ramp, as character codes
grad ==
    <<32, 46, 39, 96, 94, 34, 44, 58, 59, 73, 108, 33, 105, 62, 60, 126, 43,
      95, 45, 63, 93, 91, 125, 123, 49, 41, 40, 124, 92, 47, 116, 102, 106,
      114, 120, 110, 117, 118, 99, 122, 88, 89, 85, 74, 67, 76, 81, 48, 79,
      90, 109, 119, 113, 112, 100, 98, 107, 104, 97, 111, 42, 35, 77, 87, 38,
      56, 37, 66, 64, 36>>

NEWLINE == 10
NUL == 0

(***************************************************************************)
(* Bounds of the model                                                     *)
(***************************************************************************)
MaxPress == 2       \* pressKey calls in one behaviour of Spec
MaxFrames == 3      \* DG_DrawFrame calls in one behaviour
MaxAdds == 20       \* addKeyToQueue calls in one behaviour of SpecQueue
MaxResX == 3        \* largest reduced DOOMGENERIC_RESX drawn in SpecRender
MaxResY == 2        \* largest reduced DOOMGENERIC_RESY drawn in SpecRender

\* key codes handed to pressKey: the first, a middle and the last entry of
\* keyHoldKeys, and the space bar, which is not in keyHoldKeys
KEY_SPACE == 32
PressKeys == {KEY_FIRE, KEY_ENTER, KEY_DOWNARROW, KEY_SPACE}

\* marker of a decrementKeyCtrs call in the observed call log
TICK == <<-1, 0>>

VARIABLES
    \* doomgeneric.c
    DOOMGENERIC_RESX, DOOMGENERIC_RESY, DG_ScreenBuffer,
    \* renderer (doomgeneric_ascii.c)
    output_buffer, output_buffer_size, buf, stdout, printf_failed, frame_pc,
    gradReads,
    \* key queue and hold table (doomgeneric_ascii.c)
    s_KeyQueue, s_KeyQueueWriteIndex, s_KeyQueueReadIndex, keyHold,
    \* the caller's result of the last DG_GetKey call
    ret, pressed, doomKey,
    \* observation of the run (history only, never read by the program)
    obs, lastOp, lastKey, nFrames, script,
    \* decrementKeyCtrs run statement by statement: the statement it is at
    \* (pc) and its local i
    dkc

renderVars == <<DOOMGENERIC_RESX, DOOMGENERIC_RESY, DG_ScreenBuffer,
                output_buffer, output_buffer_size, buf, stdout,
                printf_failed, gradReads>>
queueVars == <<s_KeyQueue, s_KeyQueueWriteIndex, s_KeyQueueReadIndex>>
getVars == <<ret, pressed, doomKey>>
vars == <<renderVars, frame_pc, queueVars, keyHold, getVars,
          obs, lastOp, lastKey, nFrames, script, dkc>>

Slots == 0..(KEYQUEUE_SIZE - 1)
HoldIdx == 0..(KEY_HOLD_KEYS - 1)

(***************************************************************************)
(* Observation of the calls of addKeyToQueue and DG_GetKey.                *)
(*   log    the <<pressed, key>> arguments of every addKeyToQueue call, in *)
(*          call order, with a TICK before the calls of each               *)
(*          decrementKeyCtrs                                               *)
(*   nEnq   number of addKeyToQueue calls                                  *)
(*   stamp  per slot: 0 when the slot holds no undrained event, else the   *)
(*          number of the addKeyToQueue call that stored its event         *)
(*   held   per slot: the arguments of the call that last stored there     *)
(*   rt     enqueue-then-dequeue round trip since the queue was last       *)
(*          empty: the events enqueued (batch), the DG_GetKey results      *)
(*          <<ret, pressed, doomKey>> that followed (got); valid while no  *)
(*          enqueue followed a dequeue                                     *)
(*   ov     enqueue into a queue whose slots all held undrained events:    *)
(*          claim = the other undrained events in enqueue order and the    *)
(*          new one, range = the events of the slots from the read index   *)
(*          up to the new write index, got = the DG_GetKey results that    *)
(*          followed                                                       *)
(*   slots  the slot each addKeyToQueue call stored to, in call order      *)
(*   deq    the <<pressed, doomKey>> outputs of the DG_GetKey calls that   *)
(*          returned 1, in call order, recorded while over is FALSE        *)
(*   over   whether, after some addKeyToQueue call, more than              *)
(*          KEYQUEUE_SIZE - 1 enqueued events had not been returned        *)
(***************************************************************************)
NoOv == [active |-> FALSE, fromEmpty |-> FALSE, new |-> <<0, 0>>,
         claim |-> <<>>, range |-> <<>>, got |-> <<>>]

ObsInit ==
    [log |-> <<>>, nEnq |-> 0, stamp |-> [s \in Slots |-> 0],
     held |-> [s \in Slots |-> <<0, 0>>],
     rt |-> [valid |-> TRUE, batch |-> <<>>, got |-> <<>>],
     ov |-> NoOv,
     slots |-> <<>>, deq |-> <<>>, over |-> FALSE]

AllLive(stamp) == \A s \in Slots : stamp[s] > 0

Rank(stamp, s) == Cardinality({t \in Slots : stamp[t] < stamp[s]}) + 1

SlotOfRank(stamp, k) == CHOOSE s \in Slots : Rank(stamp, s) = k

ObserveEnqueue(o, r, wBefore, wAfter, ev) ==
    LET full == AllLive(o.stamp)
        wasEmpty == (r = wBefore)
        newHeld == [o.held EXCEPT ![wBefore] = ev]
        newRt == IF wasEmpty
                 THEN [valid |-> TRUE, batch |-> <<ev>>, got |-> <<>>]
                 ELSE IF o.rt.valid /\ o.rt.got = <<>>
                      THEN [o.rt EXCEPT !.batch = Append(@, ev)]
                      ELSE [o.rt EXCEPT !.valid = FALSE]
        newOv == IF full
                 THEN [active |-> TRUE,
                       fromEmpty |-> wasEmpty,
                       new |-> ev,
                       claim |-> [k \in 1..(KEYQUEUE_SIZE - 1) |->
                                    o.held[SlotOfRank(o.stamp, k + 1)]]
                                 \o <<ev>>,
                       range |-> [k \in 1..((wAfter - r + KEYQUEUE_SIZE)
                                              % KEYQUEUE_SIZE) |->
                                    newHeld[(r + k - 1) % KEYQUEUE_SIZE]],
                       got |-> <<>>]
                 ELSE NoOv
    IN [log |-> Append(o.log, ev),
        nEnq |-> o.nEnq + 1,
        stamp |-> [o.stamp EXCEPT ![wBefore] = o.nEnq + 1],
        held |-> newHeld,
        rt |-> newRt,
        ov |-> newOv,
        slots |-> Append(o.slots, wBefore),
        deq |-> o.deq,
        over |-> o.over \/ (o.nEnq + 1 - Len(o.deq) > KEYQUEUE_SIZE - 1)]

ObserveGetKey(o, r, rAfter, wAfter, res) ==
    LET newRt == IF o.rt.valid
                 THEN IF Len(o.rt.got) <= Len(o.rt.batch)
                      THEN [o.rt EXCEPT !.got = Append(@, res)]
                      ELSE o.rt
                 ELSE IF rAfter = wAfter
                      THEN [valid |-> TRUE, batch |-> <<>>, got |-> <<>>]
                      ELSE o.rt
        newOv == IF o.ov.active /\ Len(o.ov.got) <= Len(o.ov.range)
                 THEN [o.ov EXCEPT !.got = Append(@, res)]
                 ELSE o.ov
    IN [o EXCEPT !.stamp = IF res[1] = 1 THEN [@ EXCEPT ![r] = 0] ELSE @,
                 !.rt = newRt,
                 !.ov = newOv,
                 !.deq = IF res[1] = 1 /\ ~o.over
                         THEN Append(@, <<res[2], res[3]>>)
                         ELSE @]

(***************************************************************************)
(* addKeyToQueue (doomgeneric_ascii.c:184-190) on kq = [q, w]              *)
(***************************************************************************)
\* (pressed << 8) | key, truncated to unsigned short; key is an unsigned
\* char, so the low byte of pressed << 8 is zero and | adds
KeyData(pressedArg, key) == ((pressedArg * 256) + (key % 256)) % 65536

\* addKeyToQueue with the write index advanced before the store
addKeyToQueue_preinc(kq, pressedArg, key) ==
    [q |-> [kq.q EXCEPT ![(kq.w + 1) % KEYQUEUE_SIZE] = KeyData(pressedArg, key)],
     w |-> (kq.w + 1) % KEYQUEUE_SIZE]

\* addKeyToQueue with the write index advanced without the wrap of line 189
\* applied at the last slot (it stays on the slot it wrote)
addKeyToQueue_nowrap(kq, pressedArg, key) ==
    [q |-> [kq.q EXCEPT ![kq.w] = KeyData(pressedArg, key)],
     w |-> IF kq.w + 1 < KEYQUEUE_SIZE THEN kq.w + 1 ELSE kq.w]

\* addKeyToQueue without the reduction of line 189
addKeyToQueue_noreduce(kq, pressedArg, key) ==
    [q |-> [kq.q EXCEPT ![kq.w] = KeyData(pressedArg, key)],
     w |-> kq.w + 1]

addKeyToQueue(kq, pressedArg, key) ==
    [q |-> [kq.q EXCEPT ![kq.w] = KeyData(pressedArg, key)],
     w |-> (kq.w + 1) % KEYQUEUE_SIZE]

\* a call of addKeyToQueue inside a handler working on st = [kq, hold, o]
CallAddKeyToQueue(st, pressedArg, key) ==
    LET after == addKeyToQueue(st.kq, pressedArg, key)
    IN [st EXCEPT !.kq = after,
                  !.o = ObserveEnqueue(st.o, s_KeyQueueReadIndex, st.kq.w,
                                       after.w, <<pressedArg, key>>)]

HandlerState ==
    [kq |-> [q |-> s_KeyQueue, w |-> s_KeyQueueWriteIndex],
     hold |-> keyHold, o |-> obs]

(***************************************************************************)
(* pressKey (doomgeneric_ascii.c:201-214)                                  *)
(***************************************************************************)
\* PressLoop that leaves a counter that is still running alone
RECURSIVE PressLoop_norestart(_, _, _)
PressLoop_norestart(j, hold, key) ==
    IF j < KEY_HOLD_KEYS
    THEN IF keyHoldKeys(j) = key
         THEN IF hold[j] = 0 THEN [hold EXCEPT ![j] = KEY_HOLD_FRAMES] ELSE hold
         ELSE PressLoop_norestart(j + 1, hold, key)
    ELSE hold

\* PressLoop with the assignment outside the test of line 209
RECURSIVE PressLoop_unguarded(_, _, _)
PressLoop_unguarded(j, hold, key) ==
    IF j < KEY_HOLD_KEYS
    THEN IF keyHoldKeys(j) = key
         THEN [hold EXCEPT ![j] = KEY_HOLD_FRAMES]
         ELSE PressLoop_unguarded(j + 1, [hold EXCEPT ![j] = KEY_HOLD_FRAMES], key)
    ELSE hold

\* PressLoop that never matches the first entry of keyHoldKeys
RECURSIVE PressLoop_from1(_, _, _)
PressLoop_from1(j, hold, key) ==
    IF j < KEY_HOLD_KEYS
    THEN IF j > 0 /\ keyHoldKeys(j) = key
         THEN [hold EXCEPT ![j] = KEY_HOLD_FRAMES]
         ELSE PressLoop_from1(j + 1, hold, key)
    ELSE hold

RECURSIVE PressLoop(_, _, _)
PressLoop(j, hold, key) ==
    IF j < KEY_HOLD_KEYS
    THEN IF keyHoldKeys(j) = key
         THEN [hold EXCEPT ![j] = KEY_HOLD_FRAMES]
         ELSE PressLoop(j + 1, hold, key)
    ELSE hold

pressKeyBody(st, key) ==
    LET st1 == CallAddKeyToQueue(st, 1, key)
    IN [st1 EXCEPT !.hold = PressLoop(0, st1.hold, key)]

(***************************************************************************)
(* decrementKeyCtrs (doomgeneric_ascii.c:216-229)                          *)
(***************************************************************************)
\* TickLoop with the test of line 223 made before the decrement of line 222
RECURSIVE TickLoop_early(_, _)
TickLoop_early(i, st) ==
    IF i < KEY_HOLD_KEYS
    THEN IF st.hold[i] > 0
         THEN LET dec == [st EXCEPT !.hold[i] = @ - 1]
              IN IF st.hold[i] = KEY_HOLD_FRAMES
                 THEN TickLoop_early(i + 1, CallAddKeyToQueue(dec, 0, keyHoldKeys(i)))
                 ELSE TickLoop_early(i + 1, dec)
         ELSE TickLoop_early(i + 1, st)
    ELSE st

\* TickLoop without the test of line 221
RECURSIVE TickLoop_nofloor(_, _)
TickLoop_nofloor(i, st) ==
    IF i < KEY_HOLD_KEYS
    THEN LET dec == [st EXCEPT !.hold[i] = @ - 1]
         IN IF dec.hold[i] = 0
            THEN TickLoop_nofloor(i + 1, CallAddKeyToQueue(dec, 0, keyHoldKeys(i)))
            ELSE TickLoop_nofloor(i + 1, dec)
    ELSE st

\* TickLoop that lets the counter run out without the call of line 225
RECURSIVE TickLoop_silent(_, _)
TickLoop_silent(i, st) ==
    IF i < KEY_HOLD_KEYS
    THEN IF st.hold[i] > 0
         THEN TickLoop_silent(i + 1, [st EXCEPT !.hold[i] = @ - 1])
         ELSE TickLoop_silent(i + 1, st)
    ELSE st

RECURSIVE TickLoop(_, _)
TickLoop(i, st) ==
    IF i < KEY_HOLD_KEYS
    THEN IF st.hold[i] > 0
         THEN LET dec == [st EXCEPT !.hold[i] = @ - 1]
              IN IF dec.hold[i] = 0
                 THEN TickLoop(i + 1, CallAddKeyToQueue(dec, 0, keyHoldKeys(i)))
                 ELSE TickLoop(i + 1, dec)
         ELSE TickLoop(i + 1, st)
    ELSE st

\* decrementKeyCtrs run twice over
decrementKeyCtrsBody_twice(st) ==
    LET once == TickLoop(0, [st EXCEPT !.o.log = Append(@, TICK)])
    IN TickLoop(0, [once EXCEPT !.o.log = Append(@, TICK)])

decrementKeyCtrsBody(st) ==
    TickLoop(0, [st EXCEPT !.o.log = Append(@, TICK)])

(***************************************************************************)
(* DG_GetKey (doomgeneric_ascii.c:231-248): [ret, pressed, doomKey, r]     *)
(***************************************************************************)
\* DG_GetKey reading the slot after advancing the read index
DG_GetKeyBody_postread(q, r, w, pressedOut, doomKeyOut) ==
    IF r = w
    THEN [ret |-> 0, pressed |-> pressedOut, doomKey |-> doomKeyOut, r |-> r]
    ELSE LET keyData == q[(r + 1) % KEYQUEUE_SIZE]
         IN [ret |-> 1,
             pressed |-> keyData \div 256,
             doomKey |-> keyData % 256,
             r |-> (r + 1) % KEYQUEUE_SIZE]

\* DG_GetKey taking the queue for empty whenever the read index is not
\* below the write index
DG_GetKeyBody_less(q, r, w, pressedOut, doomKeyOut) ==
    IF r >= w
    THEN [ret |-> 0, pressed |-> pressedOut, doomKey |-> doomKeyOut, r |-> r]
    ELSE LET keyData == q[r]
         IN [ret |-> 1,
             pressed |-> keyData \div 256,
             doomKey |-> keyData % 256,
             r |-> (r + 1) % KEYQUEUE_SIZE]

DG_GetKeyBody(q, r, w, pressedOut, doomKeyOut) ==
    IF r = w
    THEN [ret |-> 0, pressed |-> pressedOut, doomKey |-> doomKeyOut, r |-> r]
    ELSE LET keyData == q[r]
         IN [ret |-> 1,
             pressed |-> keyData \div 256,
             doomKey |-> keyData % 256,
             r |-> (r + 1) % KEYQUEUE_SIZE]

(***************************************************************************)
(* DG_DrawFrame (doomgeneric_ascii.c:99-161)                               *)
(***************************************************************************)
\* (pixel->r + pixel->g + pixel->b) * GRAD_LEN / 766u in unsigned int. The
\* channels are 8-bit fields, so the product is at most 765 * 70 and the
\* 32-bit arithmetic never wraps
\* GlyphIndex dividing by 3 * 255
GlyphIndex_765(pixel) ==
    ((pixel.r + pixel.g + pixel.b) * GRAD_LEN) \div 765

\* GlyphIndex scaling by the index of the last glyph instead of GRAD_LEN
GlyphIndex_last(pixel) ==
    ((pixel.r + pixel.g + pixel.b) * (GRAD_LEN - 1)) \div 766

\* GlyphIndex rounding to the nearest index instead of down
GlyphIndex_round(pixel) ==
    ((pixel.r + pixel.g + pixel.b) * GRAD_LEN + 383) \div 766

GlyphIndex(pixel) ==
    ((pixel.r + pixel.g + pixel.b) * GRAD_LEN) \div 766

\* grad[idx]: the literal has GRAD_LEN glyphs and its terminator; a read
\* past the terminator is outside the array
BadRead == -1

GradAt(idx) ==
    IF idx < GRAD_LEN THEN grad[idx + 1]
    ELSE IF idx = GRAD_LEN THEN NUL
    ELSE BadRead

\* the loops of lines 114-140 on fs = [bytes, pixel, reads]: bytes are the
\* characters stored through buf so far, pixel the offset of the pixel
\* pointer, reads the indices at which grad[] was read
\* ColLoop storing each glyph once (line 136 missing)
RECURSIVE ColLoop_once(_, _)
ColLoop_once(col, fs) ==
    IF col < DOOMGENERIC_RESX
    THEN LET idx == GlyphIndex(DG_ScreenBuffer[fs.pixel])
             v_char == GradAt(idx)
         IN ColLoop_once(col + 1,
                         [bytes |-> fs.bytes \o <<v_char>>,
                          pixel |-> fs.pixel + 1,
                          reads |-> fs.reads \cup {idx}])
    ELSE fs

RECURSIVE ColLoop(_, _)
ColLoop(col, fs) ==
    IF col < DOOMGENERIC_RESX
    THEN LET idx == GlyphIndex(DG_ScreenBuffer[fs.pixel])
             v_char == GradAt(idx)
         IN ColLoop(col + 1,
                    [bytes |-> fs.bytes \o <<v_char, v_char>>,
                     pixel |-> fs.pixel + 1,
                     reads |-> fs.reads \cup {idx}])
    ELSE fs

RECURSIVE RowLoop(_, _)
RowLoop(row, fs) ==
    IF row < DOOMGENERIC_RESY
    THEN LET afterCols == ColLoop(0, fs)
         IN RowLoop(row + 1, [afterCols EXCEPT !.bytes = Append(@, NEWLINE)])
    ELSE fs

FillOutputBuffer == RowLoop(0, [bytes |-> <<>>, pixel |-> 0, reads |-> {}])

\* the bytes stored through buf, laid over the buffer from offset 0
StoreBytes(buffer, bytes) ==
    [i \in DOMAIN buffer |-> IF i < Len(bytes) THEN bytes[i + 1] ELSE buffer[i]]

\* printf("%s", output_buffer): the characters before the first NUL; with
\* no NUL inside the allocation the read runs off its end, and the text is
\* at least the whole allocation
HasNul(buffer) == \E i \in DOMAIN buffer : buffer[i] = NUL

FirstNul(buffer) ==
    CHOOSE i \in DOMAIN buffer :
        buffer[i] = NUL /\ \A j \in 0..(i - 1) : buffer[j] # NUL

PrintfText(buffer, size) ==
    LET n == IF HasNul(buffer) THEN FirstNul(buffer) ELSE size
    IN [k \in 1..n |-> buffer[k - 1]]

\* memset(output_buffer, '\0', n)
Memset(buffer, n) ==
    [i \in DOMAIN buffer |-> IF i < n THEN NUL ELSE buffer[i]]

\* lines 110-140
DrawFrame_Fill ==
    /\ frame_pc = "idle"
    /\ nFrames < MaxFrames
    /\ LET fs == FillOutputBuffer
       IN /\ output_buffer' = StoreBytes(output_buffer, fs.bytes)
          /\ buf' = Len(fs.bytes)
          /\ gradReads' = fs.reads
    /\ printf_failed' = FALSE
    /\ frame_pc' = "printf"
    /\ nFrames' = nFrames + 1
    /\ lastOp' = "DG_DrawFrame"
    /\ UNCHANGED <<DOOMGENERIC_RESX, DOOMGENERIC_RESY, DG_ScreenBuffer,
                   output_buffer_size, stdout, queueVars, keyHold, getVars,
                   obs, lastKey, script, dkc>>

\* line 151: the result of printf is not examined; on failure the sink
\* has taken nothing of this frame
DrawFrame_Printf ==
    /\ frame_pc = "printf"
    /\ \E failed \in BOOLEAN :
         /\ printf_failed' = failed
         /\ stdout' = IF failed THEN <<>>
                      ELSE PrintfText(output_buffer, output_buffer_size)
    /\ frame_pc' = "memset"
    /\ UNCHANGED <<DOOMGENERIC_RESX, DOOMGENERIC_RESY, DG_ScreenBuffer,
                   output_buffer, output_buffer_size, buf, gradReads,
                   queueVars, keyHold, getVars, obs, lastOp, lastKey,
                   nFrames, script, dkc>>

\* lines 154-158: the memset, then the draw_frame() call into the page,
\* which touches none of the C state
DrawFrame_Memset ==
    /\ frame_pc = "memset"
    /\ output_buffer' = Memset(output_buffer, buf + 1)
    /\ frame_pc' = "decrementKeyCtrs"
    /\ UNCHANGED <<DOOMGENERIC_RESX, DOOMGENERIC_RESY, DG_ScreenBuffer,
                   output_buffer_size, buf, stdout, printf_failed, gradReads,
                   queueVars, keyHold, getVars, obs, lastOp, lastKey,
                   nFrames, script, dkc>>

\* line 160
DrawFrame_Tick ==
    /\ frame_pc = "decrementKeyCtrs"
    /\ LET st == decrementKeyCtrsBody(HandlerState)
       IN /\ s_KeyQueue' = st.kq.q
          /\ s_KeyQueueWriteIndex' = st.kq.w
          /\ keyHold' = st.hold
          /\ obs' = st.o
    /\ frame_pc' = "idle"
    /\ lastOp' = "decrementKeyCtrs"
    /\ UNCHANGED <<renderVars, s_KeyQueueReadIndex, getVars, lastKey,
                   nFrames, script, dkc>>

(***************************************************************************)
(* Calls from the page and from the game loop, between frames              *)
(***************************************************************************)
NumPresses == Cardinality({i \in DOMAIN obs.log : obs.log[i][1] = 1})

pressKey(key) ==
    /\ frame_pc = "idle"
    /\ NumPresses < MaxPress
    /\ LET st == pressKeyBody(HandlerState, key)
       IN /\ s_KeyQueue' = st.kq.q
          /\ s_KeyQueueWriteIndex' = st.kq.w
          /\ keyHold' = st.hold
          /\ obs' = st.o
    /\ lastOp' = "pressKey"
    /\ lastKey' = key
    /\ UNCHANGED <<renderVars, frame_pc, s_KeyQueueReadIndex, getVars,
                   nFrames, script, dkc>>

DG_GetKey ==
    /\ frame_pc = "idle"
    /\ LET g == DG_GetKeyBody(s_KeyQueue, s_KeyQueueReadIndex,
                              s_KeyQueueWriteIndex, pressed, doomKey)
       IN /\ ret' = g.ret
          /\ pressed' = g.pressed
          /\ doomKey' = g.doomKey
          /\ s_KeyQueueReadIndex' = g.r
          /\ obs' = ObserveGetKey(obs, s_KeyQueueReadIndex, g.r,
                                  s_KeyQueueWriteIndex,
                                  <<g.ret, g.pressed, g.doomKey>>)
    /\ lastOp' = "DG_GetKey"
    /\ UNCHANGED <<renderVars, frame_pc, s_KeyQueue, s_KeyQueueWriteIndex,
                   keyHold, lastKey, nFrames, script, dkc>>

\* a direct call of addKeyToQueue with the next event of the chosen script
ScriptEvent(s, i) ==
    [pressed |-> (i + s) % 2, key |-> (37 * s * i + 11 * s) % 256]

EnqueueScripted ==
    /\ frame_pc = "idle"
    /\ obs.nEnq < MaxAdds
    /\ LET e == ScriptEvent(script, obs.nEnq)
           st == CallAddKeyToQueue(HandlerState, e.pressed, e.key)
       IN /\ s_KeyQueue' = st.kq.q
          /\ s_KeyQueueWriteIndex' = st.kq.w
          /\ obs' = st.o
          /\ lastKey' = e.key
    /\ lastOp' = "addKeyToQueue"
    /\ UNCHANGED <<renderVars, frame_pc, s_KeyQueueReadIndex, keyHold,
                   getVars, nFrames, script, dkc>>

(***************************************************************************)
(* Initial states: dg_Create (doomgeneric.c:28-34), DG_Init                *)
(* (doomgeneric_ascii.c:86-97) and the static initialisers                 *)
(***************************************************************************)
\* no decrementKeyCtrs call is being run statement by statement
NotTicking == [pc |-> "none", i |-> 0]

\* output_buffer_size of DG_Init
\* a buffer of just the glyphs and newlines of a frame
OutputBufferSize_tight(w, h) == 2 * w * h + h

OutputBufferSize(w, h) == 21 * w * h + h + 4

\* what malloc hands out is not initialised: every byte NUL, or every byte
\* some other value
UninitFills == {NUL, 63}

Black == [r |-> 0, g |-> 0, b |-> 0]
White == [r |-> 255, g |-> 255, b |-> 255]
Palette == {Black, White}

\* colours whose r + g + b takes every value of 0..765
Sweep == {[r |-> x, g |-> y, b |-> z] : x \in 0..255, y \in {0, 255}, z \in {0, 255}}

InitCommon(w, h, screen, fill) ==
    /\ DOOMGENERIC_RESX = w
    /\ DOOMGENERIC_RESY = h
    /\ DG_ScreenBuffer = screen
    /\ output_buffer_size = OutputBufferSize(w, h)
    /\ output_buffer = [i \in 0..(OutputBufferSize(w, h) - 1) |-> fill]
    /\ buf = 0
    /\ stdout = <<>>
    /\ printf_failed = FALSE
    /\ frame_pc = "idle"
    /\ gradReads = {}
    /\ s_KeyQueue = [s \in Slots |-> 0]
    /\ s_KeyQueueWriteIndex = 0
    /\ s_KeyQueueReadIndex = 0
    /\ keyHold = [j \in HoldIdx |-> 0]
    /\ ret = 0
    /\ pressed = 0
    /\ doomKey = 0
    /\ obs = ObsInit
    /\ lastOp = "dg_Create"
    /\ lastKey = 0
    /\ nFrames = 0
    /\ dkc = NotTicking

\* key handling and frames with a one-pixel screen. No key handler reads the
\* screen or the output buffer; what malloc may have left in the buffer is
\* explored by InitRender
Init ==
    /\ InitCommon(1, 1, [p \in {0} |-> Black], NUL)
    /\ script = 1

Next ==
    \/ \E key \in PressKeys : pressKey(key)
    \/ DG_GetKey
    \/ DrawFrame_Fill
    \/ DrawFrame_Printf
    \/ DrawFrame_Memset
    \/ DrawFrame_Tick

Spec == Init /\ [][Next]_vars

\* the queue alone, driven by scripted events
Scripts == {1, 2}

InitQueue ==
    /\ InitCommon(1, 1, [p \in {0} |-> Black], NUL)
    /\ script \in Scripts

NextQueue ==
    \/ EnqueueScripted
    \/ DG_GetKey

SpecQueue == InitQueue /\ [][NextQueue]_vars

\* the renderer alone. DOOMGENERIC_RESX and DOOMGENERIC_RESY are plain
\* globals (160 and 100 as shipped) that DG_Init and DG_DrawFrame read on
\* every use; the model draws them from reduced sizes, with every screen over
\* two colours, and from a one-pixel screen with every brightness
Screens(w, h, colours) == [0..(w * h - 1) -> colours]

InitRender ==
    /\ \E fill \in UninitFills :
         \/ \E w \in 1..MaxResX, h \in 1..MaxResY :
              \E screen \in Screens(w, h, Palette) :
                InitCommon(w, h, screen, fill)
         \/ \E c \in Sweep : InitCommon(1, 1, [p \in {0} |-> c], fill)
    /\ script = 1

NextRender ==
    \/ DrawFrame_Fill
    \/ DrawFrame_Printf
    \/ DrawFrame_Memset
    \/ DrawFrame_Tick

SpecRender == InitRender /\ [][NextRender]_vars

(***************************************************************************)
(* decrementKeyCtrs and the addKeyToQueue it calls, statement by           *)
(* statement, with pressKey called from outside (an input callback that    *)
(* does not wait for the frame) between any two of the statements. The     *)
(* write index stays far below KEYQUEUE_SIZE - 1 in these runs, so the     *)
(* index that line 188 leaves for line 189 to reduce is a slot of the      *)
(* array.                                                                  *)
(***************************************************************************)
PreemptKeys == {KEY_FIRE, KEY_ENTER}

\* line 160: the call, and i = 0 of line 220
decrementKeyCtrs_call ==
    /\ frame_pc = "decrementKeyCtrs"
    /\ dkc.pc = "none"
    /\ dkc' = [pc |-> "for", i |-> 0]
    /\ obs' = [obs EXCEPT !.log = Append(@, TICK)]
    /\ lastOp' = "decrementKeyCtrs"
    /\ UNCHANGED <<renderVars, frame_pc, queueVars, keyHold, getVars,
                   lastKey, nFrames, script>>

\* lines 220-221: the loop test, then the test of the counter; the return
\* when the loop is over
decrementKeyCtrs_for ==
    /\ dkc.pc = "for"
    /\ IF dkc.i < KEY_HOLD_KEYS
       THEN /\ dkc' = IF keyHold[dkc.i] > 0
                      THEN [dkc EXCEPT !.pc = "dec"]
                      ELSE [dkc EXCEPT !.i = @ + 1]
            /\ frame_pc' = frame_pc
       ELSE /\ dkc' = NotTicking
            /\ frame_pc' = "idle"
    /\ lastOp' = "decrementKeyCtrs"
    /\ UNCHANGED <<renderVars, queueVars, keyHold, getVars, obs, lastKey,
                   nFrames, script>>

\* lines 222-223: the decrement, then the test for zero
decrementKeyCtrs_dec ==
    /\ dkc.pc = "dec"
    /\ keyHold' = [keyHold EXCEPT ![dkc.i] = @ - 1]
    /\ dkc' = IF keyHold[dkc.i] - 1 = 0
              THEN [dkc EXCEPT !.pc = "store"]
              ELSE [pc |-> "for", i |-> dkc.i + 1]
    /\ lastOp' = "decrementKeyCtrs"
    /\ UNCHANGED <<renderVars, frame_pc, queueVars, getVars, obs, lastKey,
                   nFrames, script>>

\* addKeyToQueue(0, keyHoldKeys[i]) of line 225, lines 185-187: keyData and
\* the store at the write index
addKeyToQueue_store ==
    /\ dkc.pc = "store"
    /\ s_KeyQueue' = [s_KeyQueue EXCEPT ![s_KeyQueueWriteIndex] =
                                            KeyData(0, keyHoldKeys(dkc.i))]
    /\ obs' = ObserveEnqueue(obs, s_KeyQueueReadIndex, s_KeyQueueWriteIndex,
                             (s_KeyQueueWriteIndex + 1) % KEYQUEUE_SIZE,
                             <<0, keyHoldKeys(dkc.i)>>)
    /\ dkc' = [dkc EXCEPT !.pc = "inc"]
    /\ lastOp' = "decrementKeyCtrs"
    /\ UNCHANGED <<renderVars, frame_pc, s_KeyQueueWriteIndex,
                   s_KeyQueueReadIndex, keyHold, getVars, lastKey, nFrames,
                   script>>

\* line 188 left out: the write index stays on the slot just stored to
addKeyToQueue_inc_skipped ==
    /\ dkc.pc = "inc"
    /\ dkc' = [dkc EXCEPT !.pc = "mod"]
    /\ lastOp' = "decrementKeyCtrs"
    /\ UNCHANGED <<renderVars, frame_pc, queueVars, keyHold, getVars, obs,
                   lastKey, nFrames, script>>

\* line 188
addKeyToQueue_inc ==
    /\ dkc.pc = "inc"
    /\ s_KeyQueueWriteIndex' = s_KeyQueueWriteIndex + 1
    /\ dkc' = [dkc EXCEPT !.pc = "mod"]
    /\ lastOp' = "decrementKeyCtrs"
    /\ UNCHANGED <<renderVars, frame_pc, s_KeyQueue, s_KeyQueueReadIndex,
                   keyHold, getVars, obs, lastKey, nFrames, script>>

\* line 189, the return, and ++i of line 220
addKeyToQueue_mod ==
    /\ dkc.pc = "mod"
    /\ s_KeyQueueWriteIndex' = s_KeyQueueWriteIndex % KEYQUEUE_SIZE
    /\ dkc' = [pc |-> "for", i |-> dkc.i + 1]
    /\ lastOp' = "decrementKeyCtrs"
    /\ UNCHANGED <<renderVars, frame_pc, s_KeyQueue, s_KeyQueueReadIndex,
                   keyHold, getVars, obs, lastKey, nFrames, script>>

\* lines 201-214, called while decrementKeyCtrs is between two statements
pressKeyPreempting(key) ==
    /\ dkc.pc # "none"
    /\ NumPresses < MaxPress
    /\ LET st == pressKeyBody(HandlerState, key)
       IN /\ s_KeyQueue' = st.kq.q
          /\ s_KeyQueueWriteIndex' = st.kq.w
          /\ keyHold' = st.hold
          /\ obs' = st.o
    /\ lastOp' = "pressKey"
    /\ lastKey' = key
    /\ UNCHANGED <<renderVars, frame_pc, s_KeyQueueReadIndex, getVars,
                   nFrames, script, dkc>>

NextPreempt ==
    \/ \E key \in PreemptKeys : pressKey(key)
    \/ DG_GetKey
    \/ DrawFrame_Fill
    \/ DrawFrame_Printf
    \/ DrawFrame_Memset
    \/ decrementKeyCtrs_call
    \/ decrementKeyCtrs_for
    \/ decrementKeyCtrs_dec
    \/ addKeyToQueue_store
    \/ addKeyToQueue_inc
    \/ addKeyToQueue_mod
    \/ \E key \in PreemptKeys : pressKeyPreempting(key)

SpecPreempt == Init /\ [][NextPreempt]_vars

(***************************************************************************)
(* Frames drawn for ever, keys pressed for ever. Each handler is one step; *)
(* obs restarts at every call and holds the calls of the last handler      *)
(* only, and the frames are not counted, so that the states are finitely   *)
(* many. The game loop calls DG_DrawFrame once per tic for as long as the  *)
(* program runs: weak fairness of DG_DrawFrame. Nothing makes the page     *)
(* call pressKey.                                                          *)
(***************************************************************************)
LiveKeys == {KEY_FIRE}

\* whether a printf fails: in these runs the sink takes every write (what
\* DG_DrawFrame does after a failed one does not depend on the keys and is
\* explored by DrawFrame_Printf)
LiveSink == {FALSE}

HandlerStateLive == [HandlerState EXCEPT !.o = ObsInit]

\* lines 201-214
pressKeyLive(key) ==
    /\ LET st == pressKeyBody(HandlerStateLive, key)
       IN /\ s_KeyQueue' = st.kq.q
          /\ s_KeyQueueWriteIndex' = st.kq.w
          /\ keyHold' = st.hold
          /\ obs' = st.o
    /\ lastOp' = "pressKey"
    /\ lastKey' = key
    /\ UNCHANGED <<renderVars, frame_pc, s_KeyQueueReadIndex, getVars,
                   nFrames, script, dkc>>

\* lines 99-161, from entry to return
DG_DrawFrame ==
    /\ \E fs \in {FillOutputBuffer} :
         \E filled \in {StoreBytes(output_buffer, fs.bytes)} :
           /\ buf' = Len(fs.bytes)
           /\ gradReads' = fs.reads
           /\ \E failed \in LiveSink :
                 /\ printf_failed' = failed
                 /\ stdout' = IF failed THEN <<>>
                              ELSE PrintfText(filled, output_buffer_size)
           /\ output_buffer' = Memset(filled, Len(fs.bytes) + 1)
    /\ LET st == decrementKeyCtrsBody(HandlerStateLive)
       IN /\ s_KeyQueue' = st.kq.q
          /\ s_KeyQueueWriteIndex' = st.kq.w
          /\ keyHold' = st.hold
          /\ obs' = st.o
    /\ lastOp' = "DG_DrawFrame"
    /\ UNCHANGED <<DOOMGENERIC_RESX, DOOMGENERIC_RESY, DG_ScreenBuffer,
                   output_buffer_size, frame_pc, s_KeyQueueReadIndex, getVars,
                   lastKey, nFrames, script, dkc>>

NextLive ==
    \/ \E key \in LiveKeys : pressKeyLive(key)
    \/ DG_DrawFrame

SpecLive == Init /\ [][NextLive]_vars /\ WF_vars(DG_DrawFrame)

(***************************************************************************)
(* Claims                                                                  *)
(***************************************************************************)
\* the DG_GetKey result that hands out event ev
Returned(ev) == <<1, ev[1], ev[2]>>

\* from an empty queue, at most n enqueues followed by dequeues: the i-th
\* dequeue returns the i-th enqueued event, the one after the last reports
\* empty
RoundTripUpTo(n) ==
    (obs.rt.valid /\ Len(obs.rt.batch) <= n) =>
        \A i \in 1..Len(obs.rt.got) :
            IF i <= Len(obs.rt.batch)
            THEN obs.rt.got[i] = Returned(obs.rt.batch[i])
            ELSE obs.rt.got[i][1] = 0

\* C1 as stated: the round trip returns the enqueued events in order and
\* then reports empty for every n up to KEYQUEUE_SIZE, n = 16 included
C1_RoundTripToCapacity == RoundTripUpTo(KEYQUEUE_SIZE)

\* C1 as amended: the round trip returns the n enqueued events in order and
\* then reports empty for every n up to KEYQUEUE_SIZE - 1; after
\* KEYQUEUE_SIZE enqueues from empty the first DG_GetKey reports empty
C1_RoundTrip ==
    /\ RoundTripUpTo(KEYQUEUE_SIZE - 1)
    /\ (obs.rt.valid /\ Len(obs.rt.batch) = KEYQUEUE_SIZE /\ obs.rt.got # <<>>)
           => obs.rt.got[1][1] = 0

\* 15 events went round from an empty queue whose cursor had left slot 0,
\* wrapping past the last slot, and the 16th dequeue was made
C1_Witness ==
    /\ obs.rt.valid
    /\ Len(obs.rt.batch) = KEYQUEUE_SIZE - 1
    /\ Len(obs.rt.got) = KEYQUEUE_SIZE
    /\ s_KeyQueueReadIndex = 3
    /\ \E i, j \in 1..Len(obs.rt.batch) :
           obs.rt.batch[i][1] = 0 /\ obs.rt.batch[j][1] = 1

\* C4 as stated: after an enqueue into a queue whose 16 slots all hold
\* undrained events, the dequeues return the other 15 undrained events and
\* the new one, in enqueue order
C4_OverflowLosesOnlyOldest ==
    obs.ov.active =>
        \A i \in 1..Len(obs.ov.got) :
            i <= Len(obs.ov.claim) => obs.ov.got[i] = Returned(obs.ov.claim[i])

\* C4 as amended: after such an enqueue the dequeues return only the events
\* of the slots from the read index up to the new write index and then
\* report empty; the new event is the last of them; after 16 enqueues and no
\* dequeue it is the only one, and the other 15 undrained events are lost
C4_OverflowKeepsReadRange ==
    obs.ov.active =>
        /\ \A i \in 1..Len(obs.ov.got) :
               IF i <= Len(obs.ov.range)
               THEN obs.ov.got[i] = Returned(obs.ov.range[i])
               ELSE obs.ov.got[i][1] = 0
        /\ obs.ov.range # <<>> => obs.ov.range[Len(obs.ov.range)] = obs.ov.new
        /\ Len(obs.ov.range) < KEYQUEUE_SIZE
        /\ obs.ov.fromEmpty => obs.ov.range = <<obs.ov.new>>

\* 17 enqueues with no dequeue from a cursor past slot 0, then two dequeues:
\* the new event, then empty
C4_Witness ==
    /\ obs.ov.active
    /\ obs.ov.fromEmpty
    /\ Len(obs.ov.got) = 2
    /\ obs.ov.got[1] = Returned(obs.ov.new)
    /\ obs.ov.got[2][1] = 0
    /\ s_KeyQueueReadIndex = 3

\* the observed log, by holdable key
Holdable == {keyHoldKeys(j) : j \in HoldIdx}

Log == obs.log

PressesOf(K) == {i \in DOMAIN Log : Log[i] = <<1, K>>}

\* the first position after p at which K is pressed again, or the end
NextPress(K, p) ==
    IF \E q \in PressesOf(K) : q > p
    THEN CHOOSE q \in PressesOf(K) :
             q > p /\ \A q2 \in PressesOf(K) : q2 > p => q <= q2
    ELSE Len(Log) + 1

TicksIn(a, b) == Cardinality({i \in (a + 1)..(b - 1) : Log[i] = TICK})

ReleasesIn(K, a, b) == {i \in (a + 1)..(b - 1) : Log[i] = <<0, K>>}

\* C2: after a press of a holdable key K and until K is pressed again, no
\* release of K is enqueued during the first KEY_HOLD_FRAMES - 1 ticks,
\* exactly one by the KEY_HOLD_FRAMES-th tick, and none by a later tick
C2_HoldTiming ==
    \A K \in Holdable : \A p \in PressesOf(K) :
        LET e == NextPress(K, p)
            rel == ReleasesIn(K, p, e)
        IN /\ \A i \in rel : TicksIn(p, i) = KEY_HOLD_FRAMES
           /\ Cardinality(rel) =
                  IF TicksIn(p, e) >= KEY_HOLD_FRAMES THEN 1 ELSE 0

\* the last holdable key was pressed once and ticked KEY_HOLD_FRAMES + 1
\* times: its release sits between the last two ticks
C2_Witness ==
    \E p \in PressesOf(KEY_DOWNARROW) :
        /\ NextPress(KEY_DOWNARROW, p) = Len(Log) + 1
        /\ TicksIn(p, Len(Log) + 1) = KEY_HOLD_FRAMES + 1
        /\ Log[Len(Log)] = TICK
        /\ Log[Len(Log) - 1] = <<0, KEY_DOWNARROW>>

\* C3: when K is pressed again KEY_HOLD_FRAMES - 1 ticks after a press, no
\* release of K is enqueued between the two presses nor by the
\* KEY_HOLD_FRAMES - 1 ticks after the second; the next tick enqueues
\* exactly one
C3_RepressRestartsTimer ==
    \A K \in Holdable : \A p \in PressesOf(K) :
        LET q == NextPress(K, p)
            e == NextPress(K, q)
        IN (q <= Len(Log) /\ TicksIn(p, q) = KEY_HOLD_FRAMES - 1) =>
               /\ ReleasesIn(K, p, q) = {}
               /\ \A i \in (q + 1)..(e - 1) :
                      TicksIn(q, i + 1) <= KEY_HOLD_FRAMES - 1
                          => Log[i] # <<0, K>>
               /\ \A i \in (q + 1)..(e - 1) :
                      (Log[i] = TICK /\ TicksIn(q, i + 1) = KEY_HOLD_FRAMES)
                          => /\ i + 1 <= Len(Log)
                             /\ Cardinality(ReleasesIn(K, i, e)) = 1
                             /\ \A x \in ReleasesIn(K, i, e) :
                                    TicksIn(i, x) = 0

\* press, KEY_HOLD_FRAMES - 1 ticks, press, KEY_HOLD_FRAMES ticks of the
\* same key, and the release those ticks enqueue
C3_Witness ==
    \E p \in PressesOf(KEY_FIRE) :
        LET q == NextPress(KEY_FIRE, p)
        IN /\ q <= Len(Log)
           /\ TicksIn(p, q) = KEY_HOLD_FRAMES - 1
           /\ TicksIn(q, Len(Log) + 1) = KEY_HOLD_FRAMES
           /\ Log[Len(Log)] = <<0, KEY_FIRE>>

\* C5, the state part: no release of a key outside keyHoldKeys is ever
\* enqueued, and after one press of such a key into an empty queue the
\* first DG_GetKey returns that press and the second reports empty
C5_NoReleaseForOtherKeys ==
    /\ \A i \in DOMAIN Log : Log[i][1] = 0 => Log[i][2] \in Holdable
    /\ \A k \in PressKeys \ Holdable :
           (obs.rt.valid /\ obs.rt.batch = << <<1, k>> >>) =>
               /\ Len(obs.rt.got) >= 1 => obs.rt.got[1] = <<1, 1, k>>
               /\ Len(obs.rt.got) >= 2 => obs.rt.got[2][1] = 0

\* C5, the step part: a pressKey(k) call makes exactly one addKeyToQueue
\* call, with (1, k); it stores that event at the write index, advances the
\* write index by one, leaves the other slots and the read index alone, sets
\* the hold counter of k to KEY_HOLD_FRAMES and leaves every other counter
\* (all of them when k is not holdable) unchanged
C5_PressStep ==
    lastOp' = "pressKey" =>
        LET k == lastKey'
            w == s_KeyQueueWriteIndex
        IN /\ obs'.log = Append(obs.log, <<1, k>>)
           /\ s_KeyQueue'[w] \div 256 = 1
           /\ s_KeyQueue'[w] % 256 = k
           /\ \A s \in Slots \ {w} : s_KeyQueue'[s] = s_KeyQueue[s]
           /\ s_KeyQueueWriteIndex' = (w + 1) % KEYQUEUE_SIZE
           /\ s_KeyQueueReadIndex' = s_KeyQueueReadIndex
           /\ \A j \in HoldIdx :
                  keyHold'[j] = IF keyHoldKeys(j) = k THEN KEY_HOLD_FRAMES
                                ELSE keyHold[j]

\* C5: every pressKey(k) enqueues exactly (1, k) and touches only the hold
\* counter of k, none when k is not holdable, so that no release of such a
\* key is ever synthesized
C5_PressKey == []C5_NoReleaseForOtherKeys /\ [][C5_PressStep]_vars

\* the space bar was pressed into an empty queue while another key's hold
\* was running, frames were drawn, and two DG_GetKey calls were made
C5_Witness ==
    /\ obs.rt.valid
    /\ obs.rt.batch = << <<1, KEY_SPACE>> >>
    /\ Len(obs.rt.got) = 2
    /\ TicksIn(0, Len(Log) + 1) >= KEY_HOLD_FRAMES
    /\ \E j \in HoldIdx : keyHold[j] > 0

\* C6: a DG_GetKey call made when the read index equals the write index
\* returns 0 and changes neither index, no slot, no hold counter and neither
\* output; otherwise it returns 1 with the event stored at the read index,
\* advances the read index by one modulo KEYQUEUE_SIZE and leaves the write
\* index, the slots and the hold table unchanged
C6_GetKeyStep ==
    lastOp' = "DG_GetKey" =>
        IF s_KeyQueueReadIndex = s_KeyQueueWriteIndex
        THEN /\ ret' = 0
             /\ UNCHANGED <<s_KeyQueueReadIndex, s_KeyQueueWriteIndex,
                            s_KeyQueue, keyHold, pressed, doomKey>>
        ELSE /\ ret' = 1
             /\ <<pressed', doomKey'>> = obs.held[s_KeyQueueReadIndex]
             /\ s_KeyQueueReadIndex' =
                    (s_KeyQueueReadIndex + 1) % KEYQUEUE_SIZE
             /\ UNCHANGED <<s_KeyQueueWriteIndex, s_KeyQueue, keyHold>>

C6_GetKey == [][C6_GetKeyStep]_vars

\* a synthesized release was dequeued while a press is still queued
C6_Witness ==
    /\ lastOp = "DG_GetKey"
    /\ ret = 1
    /\ pressed = 0
    /\ doomKey = KEY_ENTER
    /\ s_KeyQueueReadIndex # s_KeyQueueWriteIndex

\* the renderer, at the point where the frame has been assembled
W == DOOMGENERIC_RESX

H == DOOMGENERIC_RESY

Assembled == frame_pc = "printf"

Brightness(pixel) == pixel.r + pixel.g + pixel.b

\* C7: the assembled frame is H rows, top to bottom; row y is the glyphs of
\* its W pixels, left to right, each glyph grad[(r+g+b)*70/766] twice, and
\* then one newline: 2*W*H glyph characters and H newlines; an all-black
\* screen gives H lines of 2*W copies of grad[0]
C7_FrameLayout ==
    Assembled =>
        /\ buf = (2 * W + 1) * H
        /\ \A y \in 0..(H - 1) :
               /\ \A x \in 0..(W - 1) :
                      LET glyph == grad[(Brightness(DG_ScreenBuffer[y * W + x])
                                            * 70) \div 766 + 1]
                      IN /\ output_buffer[y * (2 * W + 1) + 2 * x] = glyph
                         /\ output_buffer[y * (2 * W + 1) + 2 * x + 1] = glyph
               /\ output_buffer[y * (2 * W + 1) + 2 * W] = NEWLINE
        /\ Cardinality({i \in 0..(buf - 1) : output_buffer[i] = NEWLINE}) = H
        /\ Cardinality({i \in 0..(buf - 1) : output_buffer[i] # NEWLINE})
               = 2 * W * H
        /\ (\A p \in DOMAIN DG_ScreenBuffer : DG_ScreenBuffer[p] = Black) =>
               \A i \in 0..(buf - 1) :
                   output_buffer[i] =
                       IF i % (2 * W + 1) = 2 * W THEN NEWLINE ELSE grad[1]

\* a frame of several rows and columns with pixels of different colours
C7_Witness ==
    /\ Assembled
    /\ W > 1
    /\ H > 1
    /\ DG_ScreenBuffer[0] = White
    /\ DG_ScreenBuffer[1] = Black
    /\ DG_ScreenBuffer[W] = White
    /\ DG_ScreenBuffer[W + 1] = White

\* C8: every index at which DG_DrawFrame reads grad[] is in 0..GRAD_LEN-1
C8_GlyphIndexInRamp == gradReads \subseteq 0..(GRAD_LEN - 1)

\* a frame with a pure white pixel was assembled
C8_Witness ==
    /\ Assembled
    /\ \E p \in DOMAIN DG_ScreenBuffer : Brightness(DG_ScreenBuffer[p]) = 765
    /\ gradReads # {}

\* C9: a pixel of brightness 0 is drawn with grad[0], a pixel of brightness
\* 765 with grad[GRAD_LEN - 1]
C9_RampEnds ==
    Assembled =>
        \A y \in 0..(H - 1) : \A x \in 0..(W - 1) :
            LET b == Brightness(DG_ScreenBuffer[y * W + x])
                c == output_buffer[y * (2 * W + 1) + 2 * x]
            IN /\ b = 0 => (c = grad[1] /\ 0 \in gradReads)
               /\ b = 765 => (c = grad[GRAD_LEN] /\ (GRAD_LEN - 1) \in gradReads)

\* a frame holding a black and a white pixel was assembled
C9_Witness ==
    /\ Assembled
    /\ \E p, q \in DOMAIN DG_ScreenBuffer :
           /\ Brightness(DG_ScreenBuffer[p]) = 0
           /\ Brightness(DG_ScreenBuffer[q]) = 765
    /\ gradReads = {0, GRAD_LEN - 1}

\* C10 as stated: once the write of the frame has failed, DG_DrawFrame goes
\* no further: the memset and the tick of that frame do not run
C10_FailedWriteIsFatal == printf_failed => frame_pc = "memset"

\* the ticks made so far
NumTicks(log) == Cardinality({i \in DOMAIN log : log[i] = TICK})

\* C11, the state part: between frames every DG_DrawFrame call so far has
\* ticked exactly once; inside a frame the running call has not ticked yet
C11_OneTickPerFrame ==
    NumTicks(Log) = IF frame_pc = "idle" THEN nFrames ELSE nFrames - 1

\* C11, the step part: a tick is made only as the last step of a
\* DG_DrawFrame call, after the printf of that frame (which, unless it
\* failed, has handed the sink the assembled bytes) and after the memset
\* that cleared the assembled bytes; pressKey and DG_GetKey never tick
C11_TickStep ==
    NumTicks(obs'.log) # NumTicks(obs.log) =>
        /\ NumTicks(obs'.log) = NumTicks(obs.log) + 1
        /\ frame_pc = "decrementKeyCtrs"
        /\ frame_pc' = "idle"
        /\ lastOp' = "decrementKeyCtrs"
        /\ buf = Len(FillOutputBuffer.bytes)
        /\ \/ printf_failed
           \/ /\ Len(stdout) >= buf
              /\ \A k \in 1..buf : stdout[k] = FillOutputBuffer.bytes[k]
        /\ \A i \in 0..(buf - 1) : output_buffer[i] = NUL

\* C11: every DG_DrawFrame call ticks exactly once, after its flush and its
\* clearing of the output buffer, and nothing else ticks
C11_TickAfterFlush == []C11_OneTickPerFrame /\ [][C11_TickStep]_vars

\* two whole frames were drawn around a key press, the second tick made
C11_Witness ==
    /\ lastOp = "decrementKeyCtrs"
    /\ frame_pc = "idle"
    /\ nFrames = 2
    /\ NumTicks(Log) = 2
    /\ \E j \in HoldIdx : keyHold[j] = 1
    /\ stdout = FillOutputBuffer.bytes

\* brightness * GRAD_LEN / (3 * 255), the linear mapping
LinearIndex(b) == (b * GRAD_LEN) \div (3 * 255)

\* C12 as stated: the indices DG_DrawFrame reads grad[] at are the linear
\* indices of the brightnesses of the pixels of the screen
C12_SameAsLinear ==
    Assembled =>
        gradReads = {LinearIndex(Brightness(DG_ScreenBuffer[p])) :
                         p \in DOMAIN DG_ScreenBuffer}

\* C12: the index read for a pixel of brightness b is the linear index, less
\* one when the remainder of b * GRAD_LEN by 3 * 255 is smaller than the
\* linear index (37 of the brightnesses of 0..765, 765 among them)
C12_LinearLessCarry ==
    Assembled =>
        gradReads =
            {LET b == Brightness(DG_ScreenBuffer[p])
             IN LinearIndex(b) -
                    (IF (b * GRAD_LEN) % (3 * 255) < LinearIndex(b) THEN 1 ELSE 0) :
                 p \in DOMAIN DG_ScreenBuffer}

\* a one-pixel frame of brightness 153, whose linear index is 14, was
\* assembled with the glyph of index 13
C12_Witness ==
    /\ Assembled
    /\ DOMAIN DG_ScreenBuffer = {0}
    /\ Brightness(DG_ScreenBuffer[0]) = 153
    /\ LinearIndex(153) = 14
    /\ gradReads = {13}

\* C13, the state part: every hold counter is in 0..KEY_HOLD_FRAMES
C13_CounterRange == \A j \in HoldIdx : keyHold[j] \in 0..KEY_HOLD_FRAMES

\* the addKeyToQueue calls and ticks of the step being taken
StepLog == SubSeq(obs'.log, Len(obs.log) + 1, Len(obs'.log))

StepReleases(K) ==
    Cardinality({i \in DOMAIN StepLog : StepLog[i] = <<0, K>>})

\* C13, the step part: a press of keyHoldKeys[j] takes counter j from any
\* value to KEY_HOLD_FRAMES; a tick takes a counter c > 0 to c - 1 and
\* enqueues one release of its key exactly when that is 0, and leaves a
\* counter at 0 there, enqueueing nothing; no other step changes a counter
\* or enqueues a release
C13_CounterStep ==
    \A j \in HoldIdx :
        LET c == keyHold[j]
            d == keyHold'[j]
            K == keyHoldKeys(j)
        IN IF lastOp' = "pressKey" /\ lastKey' = K
           THEN d = KEY_HOLD_FRAMES /\ StepReleases(K) = 0
           ELSE IF lastOp' = "decrementKeyCtrs"
           THEN IF c > 0
                THEN /\ d = c - 1
                     /\ StepReleases(K) = IF d = 0 THEN 1 ELSE 0
                ELSE d = 0 /\ StepReleases(K) = 0
           ELSE d = c /\ StepReleases(K) = 0

\* C13: the hold counters stay in range and move only by press and tick
C13_HoldCounters == []C13_CounterRange /\ [][C13_CounterStep]_vars

\* one tick took the counter of KEY_FIRE from 1 to 0, enqueueing its
\* release, and the counter of KEY_ENTER from KEY_HOLD_FRAMES to 1
C13_Witness ==
    /\ lastOp = "decrementKeyCtrs"
    /\ keyHold[0] = 0
    /\ keyHold[2] = KEY_HOLD_FRAMES - 1
    /\ Len(Log) >= 2
    /\ Log[Len(Log)] = <<0, KEY_FIRE>>
    /\ Log[Len(Log) - 1] = TICK

\* the arguments of the addKeyToQueue calls made so far, in call order
Enqueued == SelectSeq(Log, LAMBDA e : e # TICK)

\* C14, the state part: while no more than KEYQUEUE_SIZE - 1 enqueued
\* events have ever been waiting, the events DG_GetKey has returned are the
\* first of the events enqueued, in the same order
C14_ReturnedIsPrefix ==
    ~obs.over =>
        /\ Len(obs.deq) <= Len(Enqueued)
        /\ \A k \in 1..Len(obs.deq) : obs.deq[k] = Enqueued[k]

\* C14, the step part: under the same condition a DG_GetKey call returns 0
\* exactly when every enqueued event has already been returned
C14_EmptyStep ==
    (lastOp' = "DG_GetKey" /\ ~obs.over) =>
        ((ret' = 0) <=> (Len(obs.deq) = obs.nEnq))

\* C14: first in, first out, with no loss and no duplication, and empty
\* reported exactly when nothing is waiting
C14_Fifo == []C14_ReturnedIsPrefix /\ [][C14_EmptyStep]_vars

\* KEYQUEUE_SIZE - 1 events are waiting in slots that wrap around the end
\* of s_KeyQueue, after some were returned
C14_Witness ==
    /\ ~obs.over
    /\ obs.nEnq - Len(obs.deq) = KEYQUEUE_SIZE - 1
    /\ s_KeyQueueWriteIndex < s_KeyQueueReadIndex
    /\ Len(obs.deq) >= 2

\* C15: the write index and the read index are in 0..KEYQUEUE_SIZE-1, and
\* so is every slot an addKeyToQueue call has stored to
C15_IndicesInRange ==
    /\ s_KeyQueueWriteIndex \in Slots
    /\ s_KeyQueueReadIndex \in Slots
    /\ \A k \in DOMAIN obs.slots : obs.slots[k] \in Slots

\* the write index has wrapped to the first slot, the read index is on the
\* last one
C15_Witness ==
    /\ obs.nEnq = KEYQUEUE_SIZE
    /\ obs.slots[KEYQUEUE_SIZE] = KEYQUEUE_SIZE - 1
    /\ s_KeyQueueWriteIndex = 0
    /\ s_KeyQueueReadIndex = KEYQUEUE_SIZE - 1

\* a DG_DrawFrame call has filled the buffer and has not returned yet
InFrame == frame_pc \in {"printf", "memset", "decrementKeyCtrs"}

\* C16: the allocation is 21*W*H + H + 4 bytes; a frame stores 2*W*H + H
\* bytes, at offsets 0..buf-1, and the memset clears offsets 0..buf: all of
\* them are offsets of the allocation
C16_BufferLargeEnough ==
    /\ DOMAIN output_buffer = 0..(output_buffer_size - 1)
    /\ InFrame =>
           /\ buf = 2 * W * H + H
           /\ Len(FillOutputBuffer.bytes) = buf
           /\ \A i \in 0..(buf - 1) : i \in DOMAIN output_buffer
           /\ \A i \in 0..((buf + 1) - 1) : i \in DOMAIN output_buffer

\* a frame of several rows and columns with a white pixel has been
\* assembled, flushed and cleared
C16_Witness ==
    /\ frame_pc = "decrementKeyCtrs"
    /\ W > 1
    /\ H > 1
    /\ DG_ScreenBuffer[W * H - 1] = White
    /\ output_buffer_size = 21 * W * H + H + 4
    /\ output_buffer[buf] = NUL

\* the events enqueued for key K, in order
EventsOf(K) == SelectSeq(Log, LAMBDA e : e # TICK /\ e[2] = K)

\* C17: among the events enqueued for a holdable key, every release comes
\* directly after a press (none first, no two in a row), and the hold
\* counter of the key is positive exactly when the last of them is a press
C17_PressReleaseAlternate ==
    \A j \in HoldIdx :
        LET ev == EventsOf(keyHoldKeys(j))
        IN /\ \A i \in DOMAIN ev :
                  ev[i][1] = 0 => (i > 1 /\ ev[i - 1][1] = 1)
           /\ (keyHold[j] > 0) <=> (Len(ev) > 0 /\ ev[Len(ev)][1] = 1)

\* KEY_FIRE was pressed, released by the ticks, and pressed again
C17_Witness ==
    /\ EventsOf(KEY_FIRE) = << <<1, KEY_FIRE>>, <<0, KEY_FIRE>>, <<1, KEY_FIRE>> >>
    /\ keyHold[0] = KEY_HOLD_FRAMES
    /\ NumTicks(Log) = KEY_HOLD_FRAMES

\* the last handler called was pressKey(K)
PressedLast(K) == lastOp = "pressKey" /\ lastKey = K

\* the last handler called enqueued a release of K
ReleasedLast(K) == \E i \in DOMAIN Log : Log[i] = <<0, K>>

\* C18 as stated: with frames drawn for ever, every press of a holdable key
\* is eventually followed by the enqueueing of its release
C18_PressLeadsToRelease ==
    \A K \in LiveKeys : PressedLast(K) ~> ReleasedLast(K)

\* C18: with frames drawn for ever, every press of a holdable key is
\* eventually followed by the enqueueing of its release, unless the key is
\* pressed again and again for ever
C18_ReleaseUnlessRepressed ==
    \A K \in LiveKeys :
        \/ PressedLast(K) ~> ReleasedLast(K)
        \/ []<>PressedLast(K)

\* the frame just drawn enqueued the release of KEY_FIRE, into a queue
\* whose write index has gone round
C18_Witness ==
    /\ lastOp = "DG_DrawFrame"
    /\ ReleasedLast(KEY_FIRE)
    /\ keyHold[0] = 0
    /\ s_KeyQueue[KEYQUEUE_SIZE - 1] = KeyData(1, KEY_FIRE)
    /\ s_KeyQueueWriteIndex = 1

\* two addKeyToQueue calls in a row stored to the same slot
SameSlot(o) ==
    \E k \in 1..(Len(o.slots) - 1) : o.slots[k] = o.slots[k + 1]

\* DG_GetKey has been called until it reported the queue empty
Drained ==
    /\ frame_pc = "idle"
    /\ lastOp = "DG_GetKey"
    /\ ret = 0

\* C19, the state part: as long as no two calls have stored to the same
\* slot, DG_GetKey returns the enqueued events in order; once two have, a
\* consumer that drains the queue has been handed as many events as were
\* enqueued but not the events that were enqueued
C19_LossIffSameSlot ==
    /\ ~SameSlot(obs) => C14_ReturnedIsPrefix
    /\ (SameSlot(obs) /\ Drained) =>
           /\ Len(obs.deq) = Len(Enqueued)
           /\ obs.deq # Enqueued

\* C19, the step part: two calls come to store to the same slot only by a
\* pressKey call made while an addKeyToQueue call of decrementKeyCtrs is
\* between its store and the advance of the write index
C19_SameSlotStep ==
    (SameSlot(obs') /\ ~SameSlot(obs)) =>
        /\ dkc.pc = "inc"
        /\ lastOp' = "pressKey"
        /\ obs'.slots[Len(obs'.slots)] = s_KeyQueueWriteIndex

\* C19: pressKey between the store and the advance of an addKeyToQueue in
\* progress loses an event; nothing else does
C19_PreemptionLosesEvent == []C19_LossIffSameSlot /\ [][C19_SameSlotStep]_vars

\* the release of KEY_FIRE and a press of KEY_ENTER were stored to the same
\* slot; the queue was drained and the release was never returned
C19_Witness ==
    /\ SameSlot(obs)
    /\ Drained
    /\ Enqueued = << <<1, KEY_FIRE>>, <<0, KEY_FIRE>>, <<1, KEY_ENTER>> >>
    /\ obs.slots = <<0, 1, 1>>
    /\ obs.deq = << <<1, KEY_FIRE>>, <<1, KEY_ENTER>>, <<0, 0>> >>

\* C20 as stated: in every frame, the first included, the byte after the
\* last assembled byte is NUL when printf is called, the text the sink is
\* handed (by a printf that succeeds) is the assembled bytes and nothing
\* more, and after the memset every assembled byte is NUL
C20_FlushIsAssembled ==
    /\ frame_pc = "printf" => output_buffer[buf] = NUL
    /\ (frame_pc = "memset" /\ ~printf_failed) =>
           stdout = FillOutputBuffer.bytes
    /\ frame_pc = "decrementKeyCtrs" =>
           \A i \in 0..(buf - 1) : output_buffer[i] = NUL

====
